---- MODULE Spec2Model ----
(***************************************************************************)
(* ProtocolCommand (offchainapi/protocol_command.py): the fields of a      *)
(* command, its origin attestation, its derived dependency sets and its    *)
(* NET / STORE serialization.                                              *)
(*                                                                         *)
(* A Python list of (object_id, version) tuples is a sequence of pairs.    *)
(* A Python dict is an insertion-ordered sequence of pairs with unique     *)
(* keys, tagged with its type so that non-mapping values can be told       *)
(* apart.  An operation that can raise returns a record that says which    *)
(* exception was raised, if any.                                           *)
(***************************************************************************)
EXTENDS Integers, Sequences, FiniteSets, TLC

\* ------------------------------------------------------------------ bounds
MaxRefs == 2        \* Len(reads) + Len(writes) of a populated command
NumThreads == 3     \* concurrent callers of set_origin

\* ------------------------------------------------------------- value sets
None == "None"
Parties == {"A", "B"}
ObjectIds == {"obj1", "obj2"}
Versions == 1..2
NET == "NET"
STORE == "STORE"
JSONFlag == {NET, STORE}
Threads == 1..NumThreads

Refs == ObjectIds \X Versions

RECURSIVE SeqsUpTo(_)
SeqsUpTo(n) ==
    IF n = 0 THEN {<<>>}
    ELSE LET shorter == SeqsUpTo(n - 1)
         IN  shorter \cup {Append(s, r) : s \in {x \in shorter : Len(x) = n - 1}, r \in Refs}

VersionMaps == SeqsUpTo(MaxRefs)

\* ------------------------------------------------- Party Identity codec
Encoding == [p \in Parties |-> IF p = "A" THEN "lbr1qa" ELSE "lbr1qb"]

as_str(a) == Encoding[a]

Decodable(s) == \E p \in Parties : Encoding[p] = s

from_encoded_str(s) == CHOOSE p \in Parties : Encoding[p] = s

\* ------------------------------------------------------- Python values
PyDictValue(pairs) == [type |-> "dict", items |-> pairs]
PyListValue(elems) == [type |-> "list", items |-> elems]
PyNoneValue == [type |-> "NoneType", items |-> <<>>]

\* d[k] = v on an insertion-ordered dict: an existing key keeps its place
DictSetItem(d, k, v) ==
    IF \E i \in DOMAIN d : d[i][1] = k
    THEN [i \in DOMAIN d |-> IF d[i][1] = k THEN <<k, v>> ELSE d[i]]
    ELSE Append(d, <<k, v>>)

RECURSIVE DictBuild(_, _)
DictBuild(acc, pairs) ==
    IF pairs = <<>> THEN acc
    ELSE DictBuild(DictSetItem(acc, Head(pairs)[1], Head(pairs)[2]), Tail(pairs))

\* dict(list_of_pairs)
dict(pairs) == PyDictValue(DictBuild(<<>>, pairs))

\* ---------------------------------------------------- ProtocolCommand
ProtocolCommandInit ==
    [reads_version_map |-> <<>>, writes_version_map |-> <<>>, origin |-> None]

NoCommand == ProtocolCommandInit

Return(c) == [raised |-> "None", returned |-> TRUE, cmd |-> c]
Raise(e) == [raised |-> e, returned |-> FALSE, cmd |-> NoCommand]

\* __eq__
CommandEq(c, d) ==
    /\ c.reads_version_map = d.reads_version_map
    /\ c.writes_version_map = d.writes_version_map
    /\ c.origin = d.origin

OriginCheckAlways(cur, o) == TRUE

OriginCheckUnlessSame(cur, o) == cur = None \/ o # cur

OriginCheckOnlyUnset(cur, o) == cur = None

\* the condition of the assert in set_origin
OriginCheck(cur, o) == cur = None \/ o = cur

set_origin(c, o) ==
    IF OriginCheck(c.origin, o)
    THEN [raised |-> "None", cmd |-> [c EXCEPT !.origin = o]]
    ELSE [raised |-> "AssertionError", cmd |-> c]

get_origin(c) == c.origin

RECURSIVE VersionSet(_)
VersionSet(pairs) ==
    IF pairs = <<>> THEN {}
    ELSE {Head(pairs)[2]} \cup VersionSet(Tail(pairs))

get_dependencies_of_writes(c) == VersionSet(c.writes_version_map)

get_dependencies(c) == VersionSet(c.reads_version_map)

get_new_object_versions(c) == VersionSet(c.writes_version_map)

\* JSONSerializable.add_object_type
add_object_type(data_dict) == ("_ObjectType" :> "ProtocolCommand") @@ data_dict

StoresOriginAnyFlag(c, flag) == c.origin # None

\* the two nested conditions guarding data_dict.update({"_origin": ...})
StoresOrigin(c, flag) == flag = STORE /\ c.origin # None

get_json_data_dict(c, flag) ==
    LET data_dict == ("_reads" :> dict(c.reads_version_map))
                       @@ ("_writes" :> dict(c.writes_version_map))
        updated == IF StoresOrigin(c, flag)
                   THEN ("_origin" :> as_str(c.origin)) @@ data_dict
                   ELSE data_dict
    IN  add_object_type(updated)

LoadsOriginAnyFlag(data, flag) == "_origin" \in DOMAIN data

\* the two nested conditions guarding the assignment of self.origin
LoadsOrigin(data, flag) == flag = STORE /\ "_origin" \in DOMAIN data

\* data[key] then .items(): which exception, if any, the expression raises
ItemsErrorDefaulting(data, key) == "None"

ItemsError(data, key) ==
    IF key \notin DOMAIN data THEN "KeyError"
    ELSE IF data[key].type # "dict" THEN "AttributeError"
    ELSE "None"

HasItems(data, key) == key \in DOMAIN data /\ data[key].type = "dict"

ItemsReversed(data, key) ==
    IF HasItems(data, key)
    THEN LET s == data[key].items IN [i \in DOMAIN s |-> s[Len(s) + 1 - i]]
    ELSE <<>>

\* list((k,v) for k,v in data[key].items())
Items(data, key) == IF HasItems(data, key) THEN data[key].items ELSE <<>>

from_json_data_dict(data, flag) ==
    IF ItemsError(data, "_reads") # "None" THEN Raise(ItemsError(data, "_reads"))
    ELSE IF ItemsError(data, "_writes") # "None" THEN Raise(ItemsError(data, "_writes"))
    ELSE LET built == [ProtocolCommandInit EXCEPT
                          !.reads_version_map = Items(data, "_reads"),
                          !.writes_version_map = Items(data, "_writes")]
         IN  IF LoadsOrigin(data, flag)
             THEN IF Decodable(data["_origin"])
                  THEN Return([built EXCEPT !.origin = from_encoded_str(data["_origin"])])
                  ELSE Raise("ValueError")
             ELSE Return(built)

\* ------------------------------------------------------------------ state
VARIABLES
    self,       \* the fields of the instance made by __init__
    phase,      \* "constructed", then "populated" by the variant's constructor
    loaded,     \* the last call of from_json_data_dict: arguments and outcome
    ret,        \* the last operation: name, target, argument and outcome
    pc,         \* position of each thread inside set_origin
    targ        \* the origin argument of each thread's call

vars == <<self, phase, loaded, ret, pc, targ>>

NotLoaded ==
    [data |-> [k \in {} |-> k], flag |-> NET,
     raised |-> "None", returned |-> FALSE, cmd |-> NoCommand]

Called(l) == l.returned \/ l.raised # "None"

Outcome(op, target, arg, raised, val, prev) ==
    [op |-> op, target |-> target, arg |-> arg, raised |-> raised,
     val |-> val, prev |-> prev]

Target(t) == IF t = "self" THEN self ELSE loaded.cmd

Targets == {"self"} \cup (IF loaded.returned THEN {"loaded"} ELSE {})

\* mappings handed to from_json_data_dict that no serialization produced:
\* the well-formed mapping and every mapping that departs from it in one field
Field(k, choice) == IF choice.present THEN k :> choice.value ELSE [x \in {} |-> x]
Absent == [present |-> FALSE, value |-> None]
Present(v) == [present |-> TRUE, value |-> v]

ForeignData ==
    LET readsChoices == <<Present(dict(<< <<"obj1", 1>> >>)), Absent,
                          Present(PyListValue(<< <<"obj1", 1>> >>))>>
        writesChoices == <<Present(dict(<< <<"obj2", 2>> >>)), Absent,
                           Present(PyNoneValue)>>
        originChoices == <<Absent, Present(as_str("A")), Present("not-an-address")>>
        oneDeparture == {c \in (1..3) \X (1..3) \X (1..3) :
                            Cardinality({i \in 1..3 : c[i] # 1}) <= 1}
    IN  { Field("_reads", readsChoices[c[1]]) @@ Field("_writes", writesChoices[c[2]])
            @@ Field("_origin", originChoices[c[3]]) : c \in oneDeparture }

Init ==
    /\ self = ProtocolCommandInit
    /\ phase = "constructed"
    /\ loaded = NotLoaded
    /\ ret = Outcome("__init__", "self", None, "None", None, None)
    /\ pc = [t \in Threads |-> "idle"]
    /\ targ = [t \in Threads |-> None]

\* ----------------------------------------------- single-caller operations
Populate(r, w) ==
    /\ phase = "constructed"
    /\ Len(r) + Len(w) <= MaxRefs
    /\ self' = [self EXCEPT !.reads_version_map = r, !.writes_version_map = w]
    /\ phase' = "populated"
    /\ ret' = Outcome("populate", "self", None, "None", None, None)
    /\ UNCHANGED <<loaded, pc, targ>>

SetOrigin(o) ==
    LET res == set_origin(self, o)
    IN  /\ self' = res.cmd
        /\ ret' = Outcome("set_origin", "self", o, res.raised, None, self.origin)
        /\ UNCHANGED <<phase, loaded, pc, targ>>

GetOrigin(t) ==
    /\ t \in Targets
    /\ ret' = Outcome("get_origin", t, None, "None", get_origin(Target(t)), None)
    /\ UNCHANGED <<self, phase, loaded, pc, targ>>

GetDependencies(t) ==
    /\ t \in Targets
    /\ ret' = Outcome("get_dependencies", t, None, "None",
                      get_dependencies(Target(t)), None)
    /\ UNCHANGED <<self, phase, loaded, pc, targ>>

GetNewObjectVersions(t) ==
    /\ t \in Targets
    /\ ret' = Outcome("get_new_object_versions", t, None, "None",
                      get_new_object_versions(Target(t)), None)
    /\ UNCHANGED <<self, phase, loaded, pc, targ>>

GetJsonDataDict(flag) ==
    /\ ret' = Outcome("get_json_data_dict", "self", flag, "None",
                      get_json_data_dict(self, flag), None)
    /\ UNCHANGED <<self, phase, loaded, pc, targ>>

FromJsonDataDict(data, flag) ==
    LET res == from_json_data_dict(data, flag)
    IN  /\ loaded' = [data |-> data, flag |-> flag, raised |-> res.raised,
                      returned |-> res.returned, cmd |-> res.cmd]
        /\ ret' = Outcome("from_json_data_dict", "loaded", flag, res.raised, None, None)
        /\ UNCHANGED <<self, phase, pc, targ>>

\* from_json_data_dict applied to what get_json_data_dict just returned
Reload(flag) ==
    /\ ret.op = "get_json_data_dict"
    /\ FromJsonDataDict(ret.val, flag)

Next ==
    \/ /\ phase = "constructed"
       /\ \E r \in VersionMaps, w \in VersionMaps : Populate(r, w)
    \/ \E o \in Parties \cup {None} : SetOrigin(o)
    \/ \E t \in {"self", "loaded"} : GetOrigin(t)
    \/ \E t \in {"self", "loaded"} : GetDependencies(t)
    \/ \E t \in {"self", "loaded"} : GetNewObjectVersions(t)
    \/ \E flag \in JSONFlag : GetJsonDataDict(flag)
    \/ \E flag \in JSONFlag : Reload(flag)
    \/ \E data \in ForeignData, flag \in JSONFlag : FromJsonDataDict(data, flag)

Spec == Init /\ [][Next]_vars

\* --------------------------------- set_origin called from several threads
\* The interpreter may switch threads between any two bytecodes: the two
\* reads of self.origin in the assert and the store are separate steps.
Call(t, o) ==
    /\ pc[t] = "idle"
    /\ pc' = [pc EXCEPT ![t] = "assert_is_none"]
    /\ targ' = [targ EXCEPT ![t] = o]
    /\ UNCHANGED <<self, phase, loaded, ret>>

AssertIsNone(t) ==
    /\ pc[t] = "assert_is_none"
    /\ pc' = [pc EXCEPT ![t] = IF self.origin = None THEN "store" ELSE "assert_eq"]
    /\ UNCHANGED <<self, phase, loaded, ret, targ>>

AssertEq(t) ==
    /\ pc[t] = "assert_eq"
    /\ pc' = [pc EXCEPT ![t] = IF targ[t] = self.origin THEN "store" ELSE "raised"]
    /\ UNCHANGED <<self, phase, loaded, ret, targ>>

StoreOrigin(t) ==
    /\ pc[t] = "store"
    /\ self' = [self EXCEPT !.origin = targ[t]]
    /\ pc' = [pc EXCEPT ![t] = "returned"]
    /\ UNCHANGED <<phase, loaded, ret, targ>>

NextThreads ==
    \/ \E t \in Threads, o \in Parties : Call(t, o)
    \/ \E t \in Threads : AssertIsNone(t)
    \/ \E t \in Threads : AssertEq(t)
    \/ \E t \in Threads : StoreOrigin(t)

SpecThreads == Init /\ [][NextThreads]_vars

\* ------------------------------------------------------------ properties
UniqueIds(pairs) ==
    \A i, j \in DOMAIN pairs : pairs[i][1] = pairs[j][1] => i = j

VersionsNamed(pairs) == {v \in Versions : \E i \in DOMAIN pairs : pairs[i][2] = v}

IsSetOrigin(r) == r.op = "set_origin" /\ r.target = "self"

\* C1: a command whose object_ids are unique within reads and within writes,
\* serialized in STORE mode and deserialized in STORE mode, comes back equal
\* under __eq__: same reads, same writes, same origin.
RoundTripStore ==
    ( /\ Called(loaded)
      /\ loaded.flag = STORE
      /\ loaded.data = get_json_data_dict(self, STORE)
      /\ UniqueIds(self.reads_version_map)
      /\ UniqueIds(self.writes_version_map) )
    => /\ loaded.returned
       /\ CommandEq(loaded.cmd, self)
       /\ loaded.cmd.reads_version_map = self.reads_version_map
       /\ loaded.cmd.writes_version_map = self.writes_version_map
       /\ loaded.cmd.origin = self.origin

RoundTripStoreWitness ==
    /\ ret.op = "from_json_data_dict"
    /\ loaded.returned
    /\ loaded.flag = STORE
    /\ loaded.data = get_json_data_dict(self, STORE)
    /\ self.origin \in Parties
    /\ Len(self.reads_version_map) = 2
    /\ UniqueIds(self.reads_version_map)
    /\ self.reads_version_map[1][1] = "obj2"

\* C2: the mapping returned by get_json_data_dict has the key "_origin" iff
\* the mode is STORE and origin is set, and then its value is origin.as_str().
OriginKeyIffStore ==
    ret.op = "get_json_data_dict" =>
        /\ ("_origin" \in DOMAIN ret.val) <=> (ret.arg = STORE /\ self.origin # None)
        /\ "_origin" \in DOMAIN ret.val => ret.val["_origin"] = Encoding[self.origin]
        /\ \A flag \in JSONFlag :
              ("_origin" \in DOMAIN get_json_data_dict(self, flag))
                 <=> (flag = STORE /\ self.origin # None)

OriginKeyIffStoreWitness ==
    /\ ret.op = "get_json_data_dict"
    /\ ret.arg = NET
    /\ self.origin \in Parties
    /\ "_origin" \notin DOMAIN ret.val
    /\ "_origin" \in DOMAIN get_json_data_dict(self, STORE)

\* C3: set_origin(b) on a command whose origin is a, a # b, raises and leaves
\* origin, reads and writes as they were.
SetDifferentOriginFails ==
    [][ ( /\ IsSetOrigin(ret')
          /\ self.origin \in Parties
          /\ ret'.arg \in Parties
          /\ ret'.arg # self.origin )
        => ( /\ ret'.raised = "AssertionError"
             /\ self'.origin = self.origin
             /\ self' = self ) ]_vars

SetDifferentOriginFailsWitness ==
    /\ IsSetOrigin(ret)
    /\ ret.prev \in Parties
    /\ ret.arg \in Parties
    /\ ret.arg # ret.prev
    /\ ret.raised = "AssertionError"
    /\ self.origin = ret.prev
    /\ Len(self.reads_version_map) > 0

\* C4: origin is unset after construction and changes at most once, from
\* unset to a set value: once it is an identity, it is that identity forever.
OriginWriteOnce ==
    /\ self.origin = None
    /\ [][ self.origin # None => self'.origin = self.origin ]_vars

OriginWriteOnceWitness ==
    /\ IsSetOrigin(ret)
    /\ ret.prev \in Parties
    /\ ret.arg # ret.prev
    /\ self.origin = ret.prev

\* C6: set_origin(a) on a command whose origin is unset or already a raises
\* nothing, leaves origin = a and changes neither reads nor writes.
SetEqualOriginIdempotent ==
    [][ ( /\ IsSetOrigin(ret')
          /\ ret'.arg \in Parties
          /\ (self.origin = None \/ self.origin = ret'.arg) )
        => ( /\ ret'.raised = "None"
             /\ self'.origin = ret'.arg
             /\ self'.reads_version_map = self.reads_version_map
             /\ self'.writes_version_map = self.writes_version_map ) ]_vars

SetEqualOriginIdempotentWitness ==
    /\ IsSetOrigin(ret)
    /\ ret.prev \in Parties
    /\ ret.arg = ret.prev
    /\ ret.raised = "None"
    /\ self.origin = ret.arg
    /\ Len(self.writes_version_map) > 0

\* C7: given a mapping with "_reads" and "_writes" maps, NET-mode
\* deserialization returns a command with origin unset whether or not the
\* mapping has "_origin"; STORE-mode deserialization returns a command whose
\* origin is the decoded identity exactly when "_origin" is present.
NetNeverReadsOrigin ==
    ( /\ Called(loaded)
      /\ HasItems(loaded.data, "_reads")
      /\ HasItems(loaded.data, "_writes") )
    => /\ loaded.flag = NET => (loaded.returned /\ loaded.cmd.origin = None)
       /\ (loaded.flag = STORE /\ "_origin" \notin DOMAIN loaded.data)
             => (loaded.returned /\ loaded.cmd.origin = None)
       /\ (loaded.flag = STORE /\ loaded.returned /\ "_origin" \in DOMAIN loaded.data)
             => ( /\ loaded.cmd.origin \in Parties
                  /\ Encoding[loaded.cmd.origin] = loaded.data["_origin"] )

NetNeverReadsOriginWitness ==
    /\ ret.op = "from_json_data_dict"
    /\ loaded.flag = NET
    /\ "_origin" \in DOMAIN loaded.data
    /\ loaded.data = get_json_data_dict(self, STORE)
    /\ loaded.returned
    /\ loaded.cmd.origin = None

\* C8: from_json_data_dict raises and returns no command when "_reads" or
\* "_writes" is missing or is not a mapping, or when, in STORE mode, the
\* "_origin" value cannot be decoded.
MalformedDataRaises ==
    ( /\ Called(loaded)
      /\ \/ "_reads" \notin DOMAIN loaded.data
         \/ "_writes" \notin DOMAIN loaded.data
         \/ ~HasItems(loaded.data, "_reads")
         \/ ~HasItems(loaded.data, "_writes")
         \/ /\ loaded.flag = STORE
            /\ "_origin" \in DOMAIN loaded.data
            /\ \A p \in Parties : Encoding[p] # loaded.data["_origin"] )
    => /\ ~loaded.returned
       /\ loaded.raised # "None"
       /\ "loaded" \notin Targets

MalformedDataRaisesWitness ==
    /\ ret.op = "from_json_data_dict"
    /\ "_reads" \notin DOMAIN loaded.data
    /\ "_writes" \in DOMAIN loaded.data
    /\ loaded.raised = "KeyError"
    /\ ~loaded.returned

DuplicateIdsRejected ==
    ( /\ ret.op = "get_json_data_dict"
      /\ ~(UniqueIds(self.reads_version_map) /\ UniqueIds(self.writes_version_map)) )
    => ret.raised # "None"

\* C5: no two set_origin calls with different identities both return
\* without raising, however the steps of concurrent callers interleave.
AtMostOneCallTakesEffect ==
    \A t, u \in Threads :
        (pc[t] = "returned" /\ pc[u] = "returned") => targ[t] = targ[u]

====
